---- MODULE Spec2Model ----
(***************************************************************************)
(* Model of the document question-answering application: the session      *)
(* store and history files of data_utils.py, the cancellation-aware       *)
(* conversational_answer, and the Streamlit script main() of main.py with *)
(* the session sidebar of ui.py.  One script run is started by one user   *)
(* event; st.session_state and the widgets' values survive script runs    *)
(* and are lost when the process is restarted, the files survive both.    *)
(*                                                                         *)
(* Spec is the application as it is in the source: main.py, line 76,      *)
(* calls ui.render_pdf_upload_sidebar, a name ui.py does not define, so   *)
(* every script run with a selected session ends there.  SpecBound is the *)
(* application with that name bound to the upload widget ui.py does       *)
(* define, and SpecShared is that application started where two sessions  *)
(* are listed; SpecAnswer, SpecRoundTrip and SpecDelete call functions of  *)
(* data_utils.py directly.                                                 *)
(***************************************************************************)
EXTENDS Naturals, Sequences, FiniteSets

\* ------------------------------------------------------------------ bounds

\* User events (typing, clicks, uploads, questions) and faults (restarts and
\* stops of the process, writes that raise) in one behaviour; histories
\* grow with every question.
MaxEvents == 6
\* Vectors an index may hold.
MaxVectors == 2
\* Turns of a history that is given to a function of data_utils directly.
MaxTurns == 3

\* ------------------------------------------------------- program constants

\* range(3): the stop-flag checkpoints of conversational_answer.
Checkpoints == 3
\* search_kwargs={"k": 2} of the retriever.
RetrieverK == 2

\* Session ids: the text input takes any text as a name (ui.py, 41-45 and
\* 48-51).  Two plain names, a name that spells the file of another one, a
\* name with a directory in it; the operator types a plain name and the one
\* that spells its file.  And the empty text input.
Ids == {"s1", "s2", "./s1", "a/b"}
TypedNames == {"s1", "./s1"}
\* A name that spells the way from the history directory up to sessions.json.
TRAVERSAL == "../../sessions"
NoText == ""
\* Python's None as the value of st.session_state.selected_session.
None == "<None>"

\* The fixed answers of conversational_answer (ASCII renderings of the
\* Chinese literals "answer terminated." and "sorry, I cannot generate an
\* answer."), and the literal main compares the grounded answer with.
TERMINATED == "<answer terminated.>"
APOLOGY == "<sorry, I cannot generate an answer.>"
NOT_FOUND == "<no answer found.>"
\* The question text, and the texts the language model may return.
Questions == {"q"}
ModelAnswers == {"", "ans"}
\* A text beyond ASCII, and a text with a lone surrogate (a str json.loads
\* builds from "\ud800"), which UTF-8 cannot encode.
NON_ASCII == "<U+4F60 U+597D>"
LONE_SURROGATE == "<U+D800>"

\* The functions ui.py defines (lines 5, 13, 26, 87, 111 and 118), and the
\* name main.py, line 76, looks up in the module.
UiNames ==
    {"init_page", "render_document_upload_sidebar",
     "render_session_selection_sidebar", "display_chat_history",
     "get_user_question", "display_loading_message"}
PDF_UPLOAD == "render_pdf_upload_sidebar"

\* The exceptions that end a script run, by the place that raises them.
NoExc == "none"
JSON_ERROR == "JSONDecodeError"
UNICODE_ERROR == "UnicodeDecodeError"
VALUE_ERROR == "ValueError: not in list"
NO_WIDGET == "AttributeError: module 'ui' has no attribute 'render_pdf_upload_sidebar'"
EMBED_ERROR == "EmbeddingError"
NO_SAVE_LOCAL == "AttributeError: 'NoneType' object has no attribute 'save_local'"
NO_STRIP == "AttributeError: 'dict' object has no attribute 'strip'"
OS_ERROR == "OSError: [Errno 28] No space left on device"
FILE_NOT_FOUND == "FileNotFoundError"
ENCODE_ERROR == "UnicodeEncodeError"

\* ------------------------------------------------------------ Python values

\* A Python str, a dict {"answer": a, "source_documents": d}, a tuple and a
\* list (a JSON array) are different values: each carries its type.
PyStr(s) == [ty |-> "str", val |-> s]
PyDict(a, d) == [ty |-> "dict", val |-> [answer |-> a, source_documents |-> d]]
PyTuple(items) == [ty |-> "tuple", val |-> items]
PyList(items) == [ty |-> "list", val |-> items]

\* x in the Python list s.
InSeq(x, s) == \E i \in 1..Len(s) : s[i] = x

\* list.remove(x): s without its first occurrence of x.
RECURSIVE SeqRemoveFirst(_, _)
SeqRemoveFirst(s, x) ==
    IF s = <<>> THEN <<>>
    ELSE IF Head(s) = x THEN Tail(s)
    ELSE <<Head(s)>> \o SeqRemoveFirst(Tail(s), x)

\* str.strip() of the texts of the model: a text of white space only gives
\* "", the other texts have no white space at their ends.
WhiteSpace == {"", " ", "   ", "\n", "\t"}
strip(s) == IF s \in WhiteSpace THEN "" ELSE s

\* ------------------------------------------------------------------ files

\* A JSON file: absent, of size zero, holding a prefix of a JSON text that
\* is no JSON text (a write that was cut short), holding such a prefix that
\* ends inside a multi-byte UTF-8 character, or holding a JSON text.
NoFile == [kind |-> "absent", data |-> <<>>]
EmptyFile == [kind |-> "empty", data |-> <<>>]
PartialFile == [kind |-> "partial", data |-> <<>>]
CutCharFile == [kind |-> "cutchar", data |-> <<>>]
JsonFile(v) == [kind |-> "json", data |-> v]
\* A directory that exists.
Directory == [kind |-> "dir", data |-> <<>>]
\* What a write that was cut short may leave.
CutFiles == {PartialFile, CutCharFile}
\* What a write that raised may leave: nothing after the truncation, or a
\* part of the text.
FailedFiles == {EmptyFile} \cup CutFiles

\* ------------------------------------------------------------------ paths

\* A path is the sequence of names from the working directory down; the
\* suffix of a file (".json", ".faiss") is left out.  SESSIONS_FILE is
\* "sessions.json", HISTORY_DIR is CONVERSATION_HISTORY_DIR/"sessions",
\* VECTOR_DIR is VECTOR_STORE_DIR (data_utils.py, 15-17).
SESSIONS_FILE == <<"sessions">>
HISTORY_DIR == <<"conversation_histories", "sessions">>
VECTOR_DIR == <<"vector_stores">>

\* The text of an id cut at its "/" characters.
split(id) ==
    CASE id = "./s1" -> <<".", "s1">>
      [] id = "a/b" -> <<"a", "b">>
      [] id = TRAVERSAL -> <<"..", "..", "sessions">>
      [] OTHER -> <<id>>

\* The file the operating system finds for the names parts below the
\* directory dir (a path from the working directory): "." stays in the
\* directory, ".." goes to the one above, which from the working directory
\* (or from a directory above it) is a directory outside it, written with
\* a leading "..".
RECURSIVE resolve(_, _)
resolve(dir, parts) ==
    IF parts = <<>> THEN dir
    ELSE CASE Head(parts) = "." -> resolve(dir, Tail(parts))
           [] Head(parts) = ".." ->
                  resolve(IF dir = <<>> \/ dir[Len(dir)] = ".."
                          THEN Append(dir, "..")
                          ELSE SubSeq(dir, 1, Len(dir) - 1),
                          Tail(parts))
           [] OTHER -> resolve(Append(dir, Head(parts)), Tail(parts))

\* os.path.join(CONVERSATION_HISTORY_DIR, "sessions", f"{session_id}.json")
\* (data_utils.py, 49, 168 and 245), and the path of a session's index,
\* os.path.join(VECTOR_STORE_DIR, f"{selected_session}.faiss") (main.py, 59
\* and 63).
history_path(session_id) == resolve(HISTORY_DIR, split(session_id))
index_path(session_id) == resolve(VECTOR_DIR, split(session_id))

\* The history files that can exist: those directly in HISTORY_DIR (nothing
\* makes a directory below it); and the indexes, which are saved with the
\* directories on their path.
HistoryPaths == {history_path(id) : id \in {"s1", "s2"}}
IndexPaths == {index_path(id) : id \in Ids}

VARIABLES
    \* the files
    sessions_file,          \* sessions.json
    history_files,          \* HISTORY_DIR: the directory and the files in it
    vector_files,           \* the indexes under vector_stores: vectors persisted
    vector_global,          \* vector_stores/embedding: vectors persisted
    \* st.session_state
    new_session,            \* the text input "new_session"
    selected_session,       \* the selected session, or None
    vector_store,           \* dict: session -> None or an index
    qa_chain,               \* dict: session -> None or a retrieval chain
    conversation_history,   \* dict: session -> list of (role, content)
    \* the page
    ui_names,               \* the names bound in module ui
    uploader,               \* the files in the st.file_uploader widget
    rendered,               \* the input widgets the last run put on the page,
                            \* the session list it made them from and the
                            \* placeholder of the text input
    \* the script run in progress
    pc,                     \* where the run stands
    event,                  \* the user event that started it
    target,                 \* the session a delete click acts on
    sessions_arg,           \* the list save_sessions was given
    user_question,          \* the submitted question
    stop_flag,              \* stop_flag["stop"]
    chain_kind,             \* the chain conversational_answer was given
    ca_i,                   \* the checkpoint loop's counter
    answer,                 \* what conversational_answer returned
    exc,                    \* the exception that ended the run, or NoExc
    \* what happened in the run, recorded for the properties
    chain_calls,            \* chain calls issued by the current invocation
    chain_raised,           \* the chain call raised
    retrieved,              \* chunks the retriever returned to that call
    history_warning,        \* the history load reported an invalid file
    stop_at_entry,          \* the stop flag when conversational_answer began
    embedding,              \* what the embedding of the run's batch did
    \* what happened so far, recorded for the properties
    last_written,           \* history file -> the content last written to it
    batch_skipped,          \* a run met uploaded files that gave no chunk
    \* the counter that bounds the behaviours
    events

disk_vars == <<sessions_file, history_files, vector_files, vector_global>>
state_vars == <<new_session, selected_session, vector_store, qa_chain,
                conversation_history>>
page_vars == <<ui_names, uploader, rendered>>
run_vars == <<pc, event, target, sessions_arg, user_question, stop_flag,
              chain_kind, ca_i, answer, exc>>
ghost_vars == <<chain_calls, chain_raised, retrieved, history_warning,
                stop_at_entry, embedding>>
log_vars == <<last_written, batch_skipped>>
count_vars == <<events>>
vars == <<disk_vars, state_vars, page_vars, run_vars, ghost_vars, log_vars,
          count_vars>>

\* The JSON files of the working directory: sessions.json and HISTORY_DIR.
DiskOf(sf, hf) == [sessions |-> sf, histories |-> hf]

\* ---------------------------------------------------------- session store

\* get_sessions(): json.load of sessions.json, [] when there is no file.
\* The function catches nothing: a file of size zero or cut short raises
\* json.JSONDecodeError, a file cut inside a character UnicodeDecodeError.
get_sessions(sf) ==
    CASE sf.kind = "absent" -> [value |-> <<>>, exc |-> NoExc]
      [] sf.kind = "json" -> [value |-> sf.data, exc |-> NoExc]
      [] sf.kind = "cutchar" -> [value |-> <<>>, exc |-> UNICODE_ERROR]
      [] OTHER -> [value |-> <<>>, exc |-> JSON_ERROR]

\* save_sessions(sessions): open(SESSIONS_FILE, 'w') truncates the file,
\* json.dump then writes the list into it.
save_sessions_open(sf) == EmptyFile
save_sessions_write(sf, sessions) == JsonFile(sessions)
save_sessions(sf, sessions) ==
    save_sessions_write(save_sessions_open(sf), sessions)

\* ---------------------------------------------------------- history files

\* The file os.path.exists and open find at the history path of a session:
\* a path is followed through its directories, so it finds nothing while
\* HISTORY_DIR does not exist or when it names a directory nothing makes.
history_file(disk, session_id) ==
    LET path == history_path(session_id)
    IN  IF disk.histories[HISTORY_DIR].kind = "absent" THEN NoFile
        ELSE IF path = SESSIONS_FILE THEN disk.sessions
        ELSE IF path \in HistoryPaths THEN disk.histories[path]
        ELSE NoFile

\* The disk with the file at the history path of a session replaced; the
\* path is one at which a file can be.
put_history_file(disk, session_id, file) ==
    LET path == history_path(session_id)
    IN  IF path = SESSIONS_FILE THEN [disk EXCEPT !.sessions = file]
        ELSE [disk EXCEPT !.histories[path] = file]

\* delete_session, lines 49-51: remove the file at the history path of the
\* session if one exists.
delete_history_file(disk, session_name) ==
    IF history_file(disk, session_name).kind # "absent"
    THEN put_history_file(disk, session_name, NoFile)
    ELSE disk

\* delete_session, lines 54-57, with sessions.json readable: drop the id
\* from the list if it is listed, and save the list.
delete_index_entry(sf, session_name) ==
    LET sessions == get_sessions(sf).value
    IN  IF InSeq(session_name, sessions)
        THEN save_sessions(sf, SeqRemoveFirst(sessions, session_name))
        ELSE sf

\* delete_session(session_name) on the disk [sessions, histories]: the disk
\* it leaves and the exception that escapes it.  get_sessions is called
\* after the history file was removed.
delete_session(disk, session_name) ==
    LET removed == delete_history_file(disk, session_name)
        read == get_sessions(removed.sessions)
    IN  [sessions |-> IF read.exc = NoExc
                      THEN delete_index_entry(removed.sessions, session_name)
                      ELSE removed.sessions,
         histories |-> removed.histories,
         exc |-> read.exc]

\* json.dump([list(pair) for pair in history]): every tuple becomes a list.
TupleToList(pair) == PyList(pair.val)
RECURSIVE HistoryToJson(_)
HistoryToJson(history) ==
    IF history = <<>> THEN <<>>
    ELSE <<TupleToList(Head(history))>> \o HistoryToJson(Tail(history))

\* [tuple(pair) for pair in history]: every JSON array becomes a tuple.
ListToTuple(pair) == PyTuple(pair.val)
RECURSIVE JsonToHistory(_)
JsonToHistory(data) ==
    IF data = <<>> THEN <<>>
    ELSE <<ListToTuple(Head(data))>> \o JsonToHistory(Tail(data))

\* The file is opened with encoding="utf-8" and json.dump writes with
\* ensure_ascii=False: the characters of a text are written as they are, and
\* a lone surrogate cannot be encoded.
utf8_encodable(text) == text # LONE_SURROGATE
value_encodable(v) ==
    IF v.ty = "dict" THEN utf8_encodable(v.val.answer) ELSE utf8_encodable(v.val)
history_encodable(history) ==
    \A i \in 1..Len(history) :
        \A j \in 1..Len(history[i].val) : value_encodable(history[i].val[j])

\* save_conversation_history, lines 244-246: os.makedirs makes HISTORY_DIR,
\* open(history_file, 'w') truncates the file at the session's path; it
\* raises FileNotFoundError when the path names a directory that is not
\* there.
save_history_open(disk, session_id) ==
    LET made == [disk EXCEPT !.histories[HISTORY_DIR] = Directory]
    IN  IF history_path(session_id) \in HistoryPaths \cup {SESSIONS_FILE}
        THEN [disk |-> put_history_file(made, session_id, EmptyFile),
              exc |-> NoExc]
        ELSE [disk |-> made, exc |-> FILE_NOT_FOUND]

\* save_conversation_history, line 247: json.dump writes the whole history
\* into the opened file; at a text that cannot be encoded the write raises
\* and the file keeps the part of the JSON text before it.
save_history_write(disk, session_id, history) ==
    IF history_encodable(history)
    THEN [disk |-> put_history_file(disk, session_id,
                                    JsonFile(HistoryToJson(history))),
          exc |-> NoExc]
    ELSE [disk |-> put_history_file(disk, session_id, PartialFile),
          exc |-> ENCODE_ERROR]

\* save_conversation_history(session_id, history).
save_conversation_history(disk, session_id, history) ==
    LET opened == save_history_open(disk, session_id)
    IN  IF opened.exc # NoExc THEN opened
        ELSE save_history_write(opened.disk, session_id, history)

\* initialize_conversation_history(session_id): the history, whether
\* st.warning was called, and the exception that escapes (NoExc: none).
\* The except clause names json.JSONDecodeError only: the UnicodeDecodeError
\* of a file that ends inside a character escapes.
initialize_conversation_history(disk, session_id) ==
    LET f == history_file(disk, session_id)
    IN  CASE f.kind = "absent" -> [value |-> <<>>, warning |-> FALSE, exc |-> NoExc]
          [] f.kind = "empty" -> [value |-> <<>>, warning |-> FALSE, exc |-> NoExc]
          [] f.kind = "partial" -> [value |-> <<>>, warning |-> TRUE, exc |-> NoExc]
          [] f.kind = "cutchar" ->
                 [value |-> <<>>, warning |-> FALSE, exc |-> UNICODE_ERROR]
          [] OTHER -> [value |-> JsonToHistory(f.data),
                       warning |-> FALSE, exc |-> NoExc]

\* ------------------------------------------------------ st.session_state

\* A dict entry of st.session_state.vector_store: no key, None, or an index
\* object holding ntotal vectors (an index object is truthy).
VsAbsent == [st |-> "absent", ntotal |-> 0]
VsNone == [st |-> "None", ntotal |-> 0]
VsObj(n) == [st |-> "obj", ntotal |-> n]
ChAbsent == [present |-> FALSE, hist |-> <<>>]
ChList(h) == [present |-> TRUE, hist |-> h]

\* The selectbox of the sidebar (ui.py, 57-63): nothing without sessions,
\* else the option at sessions.index(selected_session), which raises
\* ValueError for a selection that is not listed, or the option at 0 when
\* nothing is selected yet.
selectbox_value(sessions, selected) ==
    IF sessions = <<>> THEN None
    ELSE IF selected # None
    THEN (IF InSeq(selected, sessions) THEN selected ELSE VALUE_ERROR)
    ELSE sessions[1]

\* main, lines 56-73: the entries of the selected session are made on first
\* access; the history is loaded from its file only then.
lazy_vector_store(vs, sel) ==
    IF vs[sel].st = "absent" THEN [vs EXCEPT ![sel] = VsNone] ELSE vs
lazy_qa_chain(qa, sel) ==
    IF qa[sel] = "absent" THEN [qa EXCEPT ![sel] = "None"] ELSE qa
lazy_history_load(ch, disk, sel) ==
    IF ~ch[sel].present
    THEN initialize_conversation_history(disk, sel)
    ELSE [value |-> ch[sel].hist, warning |-> FALSE, exc |-> NoExc]
lazy_history(ch, disk, sel) ==
    IF lazy_history_load(ch, disk, sel).exc = NoExc
    THEN [ch EXCEPT ![sel] = ChList(lazy_history_load(ch, disk, sel).value)]
    ELSE ch

\* main, lines 116-123: a retrieval chain is made once the session has an
\* index and no chain.
make_qa_chain(qa, vs, sel) ==
    IF vs[sel].st = "obj" /\ qa[sel] = "None" THEN [qa EXCEPT ![sel] = "chain"] ELSE qa

\* ---------------------------------------------------------- the documents

\* An uploaded file: the format of its content, whether its bytes read as
\* UTF-8 text (a binary PDF or a docx archive does not), and the text in
\* it: "text" (some words), " " (white space only) or "" (nothing).
PdfWithText == [fmt |-> "pdf", decodable |-> FALSE, body |-> "text"]
UploadedFiles ==
    {PdfWithText,
     [fmt |-> "pdf", decodable |-> FALSE, body |-> " "],
     [fmt |-> "txt", decodable |-> TRUE, body |-> "text"]}
\* A batch: one file, or a file followed by a PDF with text.
Batches == {<<f>> : f \in UploadedFiles}
               \cup {<<f, PdfWithText>> : f \in UploadedFiles}
\* What the embedding of a batch does: every chunk gets a vector, no chunk
\* gets one, or the embedding function raises.
Embeddings == {"ok", "zero", "raise"}

\* The source text of a file that is no text file, read as text.
RAW_SOURCE == "source"

\* load_pdf: the text pdfminer extracts; it raises on a file that is no
\* PDF, and the loader then returns "".
load_pdf(file) == IF file.fmt = "pdf" THEN file.body ELSE ""
\* load_text_file and load_md: the bytes of the file decoded as UTF-8; a
\* file that does not decode raises, and the loader then returns "".
load_text_file(file) ==
    IF ~file.decodable THEN ""
    ELSE IF file.fmt \in {"txt", "md"} THEN file.body ELSE RAW_SOURCE
load_md(file) == load_text_file(file)
\* load_docx: the paragraphs of the document; python-docx raises on a file
\* that is no docx archive, and the loader then returns "".
load_docx(file) == IF file.fmt = "docx" THEN file.body ELSE ""

\* load_document(file_path): the text, by the extension of the path.
load_document(path_ext, file) ==
    CASE path_ext = "pdf" -> load_pdf(file)
      [] path_ext = "txt" -> load_text_file(file)
      [] path_ext = "md" -> load_md(file)
      [] path_ext = "docx" -> load_docx(file)
      [] OTHER -> ""

\* prepare_documents(text): the number of chunks; white space gives none.
prepare_documents(text) == IF strip(text) = "" THEN 0 ELSE 1

\* main, lines 80-97: every file is copied to a temporary file whose name
\* ends in ".pdf" and loaded from there; a file with text adds its chunks.
RECURSIVE collect_documents(_)
collect_documents(files) ==
    IF files = <<>> THEN 0
    ELSE LET text == load_document("pdf", Head(files))
         IN  (IF text # "" THEN prepare_documents(text) ELSE 0)
             + collect_documents(Tail(files))

\* Mutant of has_documents: the index is built or updated whatever the batch
\* gave.
has_documents_always(n) == TRUE

\* main, line 99: "if documents:", the batch gave at least one chunk.
has_documents(n) == n > 0

\* main, lines 99-114, for a batch that gave n chunks: the index of the
\* session in memory (vs), the index files (vf: the session's is the one at
\* its index path), the file of the global path (vg),
\* and the exception that escapes.  A first batch builds the index
\* (build_vector_store_from_documents: what the embedding raises escapes,
\* an index of zero vectors gives None); a later one is added to it
\* (add_documents_to_vector_store, which reports what the embedding raises
\* and saves under the global path); line 113 then calls save_local on
\* what st.session_state.vector_store holds for the session.
index_batch(vs, vf, vg, sel, n, embed) ==
    LET m == vs[sel].ntotal
        added == IF embed = "ok" THEN n ELSE 0
    IN  IF ~has_documents(n)
        THEN [vs |-> vs, vf |-> vf, vg |-> vg, exc |-> NoExc]
        ELSE IF vs[sel].st = "None"
        THEN CASE embed = "raise" ->
                      [vs |-> vs, vf |-> vf, vg |-> vg, exc |-> EMBED_ERROR]
               [] embed = "zero" ->
                      [vs |-> [vs EXCEPT ![sel] = VsNone], vf |-> vf, vg |-> vg,
                       exc |-> NO_SAVE_LOCAL]
               [] OTHER ->
                      [vs |-> [vs EXCEPT ![sel] = VsObj(n)],
                       vf |-> [vf EXCEPT ![index_path(sel)] = n], vg |-> vg,
                       exc |-> NoExc]
        ELSE [vs |-> [vs EXCEPT ![sel] = VsObj(m + added)],
              vf |-> [vf EXCEPT ![index_path(sel)] = m + added],
              vg |-> IF embed = "raise" THEN vg ELSE m + added,
              exc |-> NoExc]

\* list.append(item).
append_turn(ch, sel, role, content) ==
    [ch EXCEPT ![sel].hist = Append(@, PyTuple(<<PyStr(role), content>>))]

\* ------------------------------------------------------------- the start

\* How far the widgets on the page go, in the order the script makes them:
\* "nothing" (get_sessions raised), "text_input" (the text input, with the
\* create button when the typed name is new), "sidebar" (the selectbox and
\* the delete button too), "uploader" (the file uploader too), "chat" (the
\* chat input too).
SidebarShown == {"sidebar", "uploader", "chat"}
UploaderShown == {"uploader", "chat"}
\* The placeholders of the text input (ui.py, 39; ASCII renderings of the
\* Chinese literals "enter a new name" and "this name exists"), and the
\* page of a process that has not made the widget yet.
PH_NEW == "<enter the name of a new conversation>"
PH_TAKEN == "<this name exists>"
PH_NONE == "<no text input>"
\* The page a run leaves: the widgets, the list get_sessions gave the run
\* (ui.py, 34), from which the create button (line 48) and the options of
\* the selectbox (line 59) were made, and the placeholder the text input
\* was last made with.
Page(stage, sessions, placeholder) ==
    [stage |-> stage, sessions |-> sessions, placeholder |-> placeholder]

\* A new process with the names given bound in module ui, in a directory
\* in which the sessions of the list given were created (none: no file);
\* the first script run is about to start.
Start(names, listed) ==
    /\ sessions_file = IF listed = <<>> THEN NoFile ELSE JsonFile(listed)
    /\ history_files = [p \in HistoryPaths \cup {HISTORY_DIR} |-> NoFile]
    /\ vector_files = [p \in IndexPaths |-> 0]
    /\ vector_global = 0
    /\ new_session = NoText
    /\ selected_session = None
    /\ vector_store = [i \in Ids |-> VsAbsent]
    /\ qa_chain = [i \in Ids |-> "absent"]
    /\ conversation_history = [i \in Ids |-> ChAbsent]
    /\ ui_names = names
    /\ uploader = <<>>
    /\ rendered = Page("nothing", <<>>, PH_NONE)
    /\ pc = "rerun"
    /\ event = "start"
    /\ target = None
    /\ sessions_arg = <<>>
    /\ user_question = NoText
    /\ stop_flag = FALSE
    /\ chain_kind = "none"
    /\ ca_i = 0
    /\ answer = PyStr(NoText)
    /\ exc = NoExc
    /\ chain_calls = 0
    /\ chain_raised = FALSE
    /\ retrieved = 0
    /\ history_warning = FALSE
    /\ stop_at_entry = FALSE
    /\ embedding = "none"
    /\ last_written = [p \in HistoryPaths |-> <<>>]
    /\ batch_skipped = FALSE
    /\ events = 0

\* The lists an earlier process of the application as it is in the source
\* has left in sessions.json: none, or two sessions.
StartLists == {<<>>, <<"s2", "s1">>}

\* The application as it is in the source.
Init == \E listed \in StartLists : Start(UiNames, listed)

\* What a script run leaves behind is cleared when the next one starts.
ResetRun ==
    /\ target' = None
    /\ sessions_arg' = <<>>
    /\ user_question' = NoText
    /\ stop_flag' = FALSE
    /\ chain_kind' = "none"
    /\ ca_i' = 0
    /\ answer' = PyStr(NoText)
    /\ exc' = NoExc
    /\ chain_calls' = 0
    /\ chain_raised' = FALSE
    /\ retrieved' = 0
    /\ history_warning' = FALSE
    /\ stop_at_entry' = FALSE
    /\ embedding' = "none"

\* The script has run to its end (or was ended by an exception, which
\* Streamlit shows): the page waits for the next user event.
AwaitEvent ==
    /\ pc = "end"
    /\ pc' = "idle"
    /\ event' = "none"
    /\ ResetRun
    /\ UNCHANGED <<disk_vars, state_vars, page_vars, log_vars, count_vars>>

\* A user event starts a script run; the page must be waiting for one.
UserEvent(name) ==
    /\ pc = "idle"
    /\ events < MaxEvents
    /\ events' = events + 1
    /\ event' = name


\* st.rerun() or an exception ends the run before the uploader is made;
\* whether the widget keeps its files then depends on the Streamlit release.
\* A run that returns without making it (main, line 46) drops them.
after_rerun(files) == {files, <<>>}

\* -------------------------------------------------- the session sidebar

\* The operator edits the text input "new_session" and leaves the field;
\* the script reruns.
TypeNewSession(n) ==
    /\ UserEvent("type")
    /\ rendered.stage # "nothing"
    /\ n # new_session
    /\ new_session' = n
    /\ pc' = "rerun"
    /\ UNCHANGED <<disk_vars, selected_session, vector_store, qa_chain,
                   conversation_history, page_vars, target, sessions_arg,
                   user_question, stop_flag, chain_kind, ca_i, answer, exc,
                   ghost_vars, log_vars>>

\* Mutant of name_exists: the typed name is never found taken.
name_exists_never(current_input, sessions) == FALSE

\* ui.py, line 38: the typed name is taken when it is in sessions.json.
name_exists(current_input, sessions) ==
    IF current_input # NoText THEN InSeq(current_input, sessions) ELSE FALSE

\* ui.py, line 39: the placeholder of the text input, by whether the text
\* that was in the field when the run began (line 37) is a listed name.
placeholder_for(current_input, sessions) ==
    IF name_exists(current_input, sessions) THEN PH_TAKEN ELSE PH_NEW

\* ui.py, lines 41-45: st.text_input(label, key="new_session",
\* placeholder=...).  Streamlit identifies a widget by its arguments: made
\* with another placeholder than the one on the page (shown), the text
\* input is a new widget and starts empty; else it returns the text in the
\* field.
text_input(current_input, shown, placeholder) ==
    IF placeholder = shown THEN current_input ELSE NoText

\* ui.py, lines 34-51: the create button is on the page for a typed name
\* that was not in the list the page was made from.  The run its click
\* starts reads sessions.json again; when that raises, the run ends there
\* (as ScriptRun has it); else the text input and the button are made
\* again, the button reports the click, the name is appended to the list
\* read and save_sessions is called with it.
CreateSession ==
    /\ UserEvent("create")
    /\ rendered.stage # "nothing"
    /\ new_session # NoText
    /\ ~name_exists(new_session, rendered.sessions)
    /\ LET read == get_sessions(sessions_file)
           placeholder == placeholder_for(new_session, read.value)
           typed == text_input(new_session, rendered.placeholder, placeholder)
       IN  IF /\ read.exc = NoExc
              /\ typed # NoText
              /\ ~name_exists(new_session, read.value)
           THEN /\ sessions_arg' = Append(read.value, typed)
                /\ rendered' = Page("text_input", read.value, placeholder)
                /\ pc' = "ss_open"
           ELSE /\ pc' = "rerun"
                /\ UNCHANGED <<sessions_arg, rendered>>
    /\ UNCHANGED <<disk_vars, state_vars, ui_names, uploader, target,
                   user_question, stop_flag, chain_kind, ca_i, answer, exc,
                   ghost_vars, log_vars>>

\* save_sessions, line 37: sessions.json is opened for writing, which
\* truncates it.
SaveSessionsOpen ==
    /\ pc = "ss_open"
    /\ sessions_file' = save_sessions_open(sessions_file)
    /\ pc' = "ss_write"
    /\ UNCHANGED <<history_files, vector_files, vector_global, state_vars,
                   page_vars, event, target, sessions_arg, user_question,
                   stop_flag, chain_kind, ca_i, answer, exc, ghost_vars,
                   log_vars, count_vars>>

\* ui.py, lines 69-74: after a delete the first session left is selected,
\* None when none is left.
first_session(sessions) == IF sessions # <<>> THEN sessions[1] ELSE None

\* save_sessions, line 38: the list is written.  After a create the new
\* session is selected (ui.py, 52-54), after a delete the first one left
\* (ui.py, 69-75); the script reruns.
SaveSessionsWrite ==
    /\ pc = "ss_write"
    /\ sessions_file' = save_sessions_write(sessions_file, sessions_arg)
    /\ selected_session' =
           IF event = "create" THEN new_session
           ELSE first_session(get_sessions(sessions_file').value)
    /\ uploader' \in after_rerun(uploader)
    /\ pc' = "rerun"
    /\ UNCHANGED <<history_files, vector_files, vector_global, new_session,
                   vector_store, qa_chain, conversation_history, ui_names,
                   rendered, event, target, sessions_arg, user_question,
                   stop_flag, chain_kind, ca_i, answer, exc, ghost_vars,
                   log_vars, count_vars>>

\* ui.py, lines 59 and 77-82: the operator picks another option of the
\* selectbox on the page.  The run that starts reads sessions.json again
\* and makes the text input; when the selectbox is made again from the same
\* list it returns the option picked: the chains are dropped, the choice is
\* stored, the script reruns.  When get_sessions or sessions.index raises,
\* the run ends there (as ScriptRun has it) and the choice is not stored.
SelectSession(id) ==
    /\ UserEvent("select")
    /\ rendered.stage \in SidebarShown
    /\ InSeq(id, rendered.sessions)
    /\ id # selected_session
    /\ LET read == get_sessions(sessions_file)
           placeholder == placeholder_for(new_session, read.value)
       IN  IF /\ read.exc = NoExc
              /\ read.value = rendered.sessions
              /\ selectbox_value(read.value, selected_session) # VALUE_ERROR
           THEN /\ new_session' =
                       text_input(new_session, rendered.placeholder, placeholder)
                /\ rendered' = [rendered EXCEPT !.placeholder = placeholder]
                /\ qa_chain' = [i \in Ids |-> "absent"]
                /\ selected_session' = id
                /\ uploader' \in after_rerun(uploader)
           ELSE UNCHANGED <<new_session, rendered, qa_chain, selected_session,
                            uploader>>
    /\ pc' = "rerun"
    /\ UNCHANGED <<disk_vars, vector_store, conversation_history, ui_names,
                   target, sessions_arg, user_question, stop_flag, chain_kind,
                   ca_i, answer, exc, ghost_vars, log_vars>>

\* ui.py, lines 34-68: the delete button on the page is clicked.  The run
\* that starts reads sessions.json and makes the text input and the
\* selectbox again; when reading or the selectbox raises, the run ends
\* there (as ScriptRun has it); else the button is made again, reports the
\* click, and delete_session is called with the session the selectbox gave.
ClickDelete ==
    /\ UserEvent("delete")
    /\ rendered.stage \in SidebarShown
    /\ LET read == get_sessions(sessions_file)
           sel == selectbox_value(read.value, selected_session)
           placeholder == placeholder_for(new_session, read.value)
       IN  IF read.exc = NoExc /\ sel \in Ids
           THEN /\ new_session' =
                       text_input(new_session, rendered.placeholder, placeholder)
                /\ target' = sel
                /\ rendered' = Page("sidebar", read.value, placeholder)
                /\ pc' = "del_file"
           ELSE /\ pc' = "rerun"
                /\ UNCHANGED <<new_session, target, rendered>>
    /\ UNCHANGED <<disk_vars, selected_session, vector_store, qa_chain,
                   conversation_history, ui_names, uploader, sessions_arg,
                   user_question, stop_flag, chain_kind, ca_i, answer, exc,
                   ghost_vars, log_vars>>

\* delete_session, lines 49-51.
DeleteHistoryFile ==
    /\ pc = "del_file"
    /\ LET removed == delete_history_file(DiskOf(sessions_file, history_files),
                                          target)
       IN  /\ sessions_file' = removed.sessions
           /\ history_files' = removed.histories
    /\ last_written' =
           IF history_path(target) \in HistoryPaths
           THEN [last_written EXCEPT ![history_path(target)] = <<>>]
           ELSE last_written
    /\ pc' = "del_index"
    /\ UNCHANGED <<vector_files, vector_global, state_vars, page_vars, event,
                   target, sessions_arg, user_question, stop_flag, chain_kind,
                   ca_i, answer, exc, ghost_vars, batch_skipped, count_vars>>

\* delete_session, lines 54-57: the list is read again (what get_sessions
\* raises escapes); when the id is listed it is removed and save_sessions
\* is called with the rest, else nothing is written and the sidebar goes on
\* (ui.py, 69-75).
DeleteIndexEntry ==
    /\ pc = "del_index"
    /\ LET read == get_sessions(sessions_file)
       IN  IF read.exc # NoExc
           THEN /\ exc' = read.exc
                /\ pc' = "end"
                /\ UNCHANGED <<selected_session, uploader, sessions_arg>>
           ELSE IF InSeq(target, read.value)
           THEN /\ sessions_arg' = delete_index_entry(sessions_file, target).data
                /\ pc' = "ss_open"
                /\ UNCHANGED <<selected_session, uploader, exc>>
           ELSE /\ selected_session' = first_session(read.value)
                /\ uploader' \in after_rerun(uploader)
                /\ pc' = "rerun"
                /\ UNCHANGED <<sessions_arg, exc>>
    /\ UNCHANGED <<disk_vars, new_session, vector_store, qa_chain,
                   conversation_history, ui_names, rendered, event, target,
                   user_question, stop_flag, chain_kind, ca_i, answer,
                   ghost_vars, log_vars, count_vars>>

\* --------------------------------------------------------- the script run

\* How far a run of main gets: the exception of get_sessions (ui.py, 34),
\* the ValueError of the selectbox (ui.py, 60), st.rerun() for a new
\* selection (ui.py, 77-82), the return without a session (main, 44-46),
\* the exception of the history load (main, 73), the AttributeError of the
\* upload widget (main, 76), the exception of the indexing (main, 103 and
\* 113), or the chat input (main, 129).
run_stage(read, sel, selected, load, names, idx) ==
    IF read.exc # NoExc THEN "sessions"
    ELSE IF sel = VALUE_ERROR THEN "selectbox"
    ELSE IF sel # selected THEN "rerun"
    ELSE IF sel = None THEN "return"
    ELSE IF load.exc # NoExc THEN "history"
    ELSE IF PDF_UPLOAD \notin names THEN "widget"
    ELSE IF idx.exc # NoExc THEN "index"
    ELSE "question"

\* One run of the script main(), from the sidebar to the chat input, with
\* the embedding of the uploaded batch doing what embed says.  Every run
\* that gets past get_sessions makes the text input (ui.py, 37-45).  The
\* files in the uploader are read and indexed in every run that reaches
\* line 76; a submitted question is appended to the history as the user
\* turn (129-133).
ScriptRun(embed) ==
    /\ pc = "rerun"
    /\ LET read == get_sessions(sessions_file)
           placeholder == placeholder_for(new_session, read.value)
           sel == selectbox_value(read.value, selected_session)
           disk == DiskOf(sessions_file, history_files)
           vs0 == lazy_vector_store(vector_store, sel)
           qa0 == lazy_qa_chain(qa_chain, sel)
           load == lazy_history_load(conversation_history, disk, sel)
           ch0 == lazy_history(conversation_history, disk, sel)
           n == collect_documents(uploader)
           idx == index_batch(vs0, vector_files, vector_global, sel, n, embed)
           stage == run_stage(read, sel, selected_session, load, ui_names, idx)
           indexing == stage \in {"index", "question"}
       IN  /\ indexing => idx.vs[sel].ntotal <= MaxVectors
           /\ exc' = CASE stage = "sessions" -> read.exc
                       [] stage = "selectbox" -> VALUE_ERROR
                       [] stage = "history" -> load.exc
                       [] stage = "widget" -> NO_WIDGET
                       [] stage = "index" -> idx.exc
                       [] OTHER -> NoExc
           /\ pc' = IF stage = "rerun" THEN "rerun"
                    ELSE IF stage = "question" /\ user_question # NoText
                    THEN "save1_open"
                    ELSE "end"
           /\ new_session' =
                  IF stage = "sessions" THEN new_session
                  ELSE text_input(new_session, rendered.placeholder, placeholder)
           /\ rendered' =
                  CASE stage = "sessions" ->
                           Page("nothing", <<>>, rendered.placeholder)
                    [] stage \in {"selectbox", "return"} ->
                           Page("text_input", read.value, placeholder)
                    [] stage \in {"history", "widget"} ->
                           Page("sidebar", read.value, placeholder)
                    [] stage = "index" ->
                           Page("uploader", read.value, placeholder)
                    [] stage = "question" -> Page("chat", read.value, placeholder)
                    [] OTHER -> [rendered EXCEPT !.placeholder = placeholder]
           /\ selected_session' = IF stage = "rerun" THEN sel ELSE selected_session
           /\ user_question' = IF stage = "rerun" THEN NoText ELSE user_question
           /\ uploader' \in CASE indexing -> {uploader}
                              [] stage = "return" -> {<<>>}
                              [] OTHER -> after_rerun(uploader)
           /\ vector_store' = CASE stage \in {"history", "widget"} -> vs0
                                [] indexing -> idx.vs
                                [] OTHER -> vector_store
           /\ qa_chain' = CASE stage = "rerun" -> [i \in Ids |-> "absent"]
                            [] stage \in {"history", "widget", "index"} -> qa0
                            [] stage = "question" -> make_qa_chain(qa0, idx.vs, sel)
                            [] OTHER -> qa_chain
           /\ conversation_history' =
                  CASE stage \in {"widget", "index"} -> ch0
                    [] stage = "question" ->
                           IF user_question # NoText
                           THEN append_turn(ch0, sel, "user", PyStr(user_question))
                           ELSE ch0
                    [] OTHER -> conversation_history
           /\ history_warning' =
                  IF stage \in {"widget", "index", "question"}
                  THEN load.warning ELSE history_warning
           /\ vector_files' = IF indexing THEN idx.vf ELSE vector_files
           /\ vector_global' = IF indexing THEN idx.vg ELSE vector_global
           /\ embedding' = IF indexing /\ has_documents(n) THEN embed ELSE "none"
           /\ batch_skipped' =
                  (batch_skipped
                      \/ (indexing /\ uploader # <<>> /\ ~has_documents(n)))
    /\ UNCHANGED <<sessions_file, history_files, ui_names, event, target,
                   sessions_arg, stop_flag, chain_kind, ca_i, answer,
                   chain_calls, chain_raised, retrieved, stop_at_entry,
                   last_written, count_vars>>

\* ------------------------------------------------ uploads and questions

\* The operator puts files into the file uploader (ui.py, 18-22); the
\* script reruns.
UploadFiles(files) ==
    /\ UserEvent("upload")
    /\ rendered.stage \in UploaderShown
    /\ files # uploader
    /\ uploader' = files
    /\ pc' = "rerun"
    /\ UNCHANGED <<disk_vars, state_vars, ui_names, rendered, target,
                   sessions_arg, user_question, stop_flag, chain_kind, ca_i,
                   answer, exc, ghost_vars, log_vars>>

\* The operator takes the files out of the uploader; the script reruns.
RemoveFiles ==
    /\ UserEvent("remove")
    /\ rendered.stage \in UploaderShown
    /\ uploader # <<>>
    /\ uploader' = <<>>
    /\ pc' = "rerun"
    /\ UNCHANGED <<disk_vars, state_vars, ui_names, rendered, target,
                   sessions_arg, user_question, stop_flag, chain_kind, ca_i,
                   answer, exc, ghost_vars, log_vars>>

\* The operator submits a question in the chat input (ui.py, 115); the
\* script reruns and finds it at line 129.
AskQuestion(q) ==
    /\ UserEvent("ask")
    /\ rendered.stage = "chat"
    /\ user_question' = q
    /\ pc' = "rerun"
    /\ UNCHANGED <<disk_vars, state_vars, page_vars, target, sessions_arg,
                   stop_flag, chain_kind, ca_i, answer, exc, ghost_vars,
                   log_vars>>

\* save_conversation_history, lines 244-246: the directory is made and the
\* session's file is opened for writing, which truncates it (main, lines
\* 135 and 183); what open raises ends the run.
SaveOpen ==
    /\ pc \in {"save1_open", "save2_open"}
    /\ LET opened == save_history_open(DiskOf(sessions_file, history_files),
                                       selected_session)
       IN  /\ sessions_file' = opened.disk.sessions
           /\ history_files' = opened.disk.histories
           /\ exc' = opened.exc
           /\ pc' = IF opened.exc # NoExc THEN "end"
                    ELSE IF pc = "save1_open" THEN "save1_write"
                    ELSE "save2_write"
    /\ UNCHANGED <<vector_files, vector_global, state_vars, page_vars, event,
                   target, sessions_arg, user_question, stop_flag, chain_kind,
                   ca_i, answer, ghost_vars, log_vars, count_vars>>

\* The content a write has put into a history file, noted for the file.
note_written(lw, disk, session_id) ==
    IF history_path(session_id) \in HistoryPaths
    THEN [lw EXCEPT ![history_path(session_id)] =
             disk.histories[history_path(session_id)].data]
    ELSE lw

\* save_conversation_history, line 247: the whole history is written; what
\* json.dump raises at a text it cannot encode ends the run.  After the
\* second save the run shows the history and ends (lines 186-189).
SaveWrite ==
    /\ pc \in {"save1_write", "save2_write"}
    /\ LET written ==
               save_history_write(DiskOf(sessions_file, history_files),
                                  selected_session,
                                  conversation_history[selected_session].hist)
       IN  /\ sessions_file' = written.disk.sessions
           /\ history_files' = written.disk.histories
           /\ exc' = written.exc
           /\ last_written' =
                  IF written.exc = NoExc
                  THEN note_written(last_written, written.disk, selected_session)
                  ELSE last_written
           /\ pc' = IF written.exc # NoExc THEN "end"
                    ELSE IF pc = "save1_write" THEN "loading"
                    ELSE "end"
    /\ UNCHANGED <<vector_files, vector_global, state_vars, page_vars, event,
                   target, sessions_arg, user_question, stop_flag, chain_kind,
                   ca_i, answer, ghost_vars, batch_skipped, count_vars>>

\* main, line 149: the retrieval chain answers when the session has a chain
\* and an index, the fallback chain otherwise.
choose_chain(qa, vs, sel) ==
    IF qa[sel] = "chain" /\ vs[sel].st = "obj" THEN "retrieval" ELSE "fallback"

\* What the stop button reports in the run of a question (ui.py, 130): the
\* button is made in that run, and st.button reports a click only in the run
\* the click starts; that run finds no question in the chat input and does
\* not reach line 144.
StopClicked == {FALSE}

\* main, lines 141-156 and 174-179: a fresh stop flag, set when the stop
\* button reports a click; conversational_answer is called with it.
LoadingMessage(stop) ==
    /\ pc = "loading"
    /\ stop_flag' = stop
    /\ stop_at_entry' = stop
    /\ chain_kind' = choose_chain(qa_chain, vector_store, selected_session)
    /\ ca_i' = 0
    /\ chain_calls' = 0
    /\ pc' = "ca_check"
    /\ UNCHANGED <<disk_vars, state_vars, page_vars, event, target,
                   sessions_arg, user_question, answer, exc, chain_raised,
                   retrieved, history_warning, embedding, log_vars,
                   count_vars>>

\* ------------------------------------------------ conversational_answer

\* return_source_documents=False of the retrieval chain (main.py, line 122):
\* its response has no "source_documents" key.
ReturnSourceDocuments == FALSE

\* What a chain call may do: raise, or return the model's text; a retrieval
\* chain first retrieves up to k chunks of the index.
ChainBehaviours(kind, ntotal) ==
    [raises : BOOLEAN, text : ModelAnswers,
     chunks : IF kind = "retrieval"
              THEN 0..(IF ntotal < RetrieverK THEN ntotal ELSE RetrieverK)
              ELSE {0}]

\* The results conversational_answer returns (lines 261/274 and 288).
TerminatedResult == PyDict(TERMINATED, <<>>)
ApologyResult == PyDict(APOLOGY, <<>>)

\* Lines 265-269 and 278-284, under the except clause of lines 286-288: the
\* result of the call for one behaviour of the chain.
chain_result(kind, beh) ==
    IF beh.raises THEN ApologyResult
    ELSE IF kind = "retrieval"
    THEN PyDict(beh.text,
                IF ReturnSourceDocuments THEN [i \in 1..beh.chunks |-> i] ELSE <<>>)
    ELSE PyDict(beh.text, <<>>)

\* Mutant of checkpoint_stops: the checkpoint reads a key that is never set.
checkpoint_never_stops(flag) == FALSE

\* Lines 260-261 and 273-274: a checkpoint returns the sentinel when the
\* stop flag is set.
checkpoint_stops(flag) == flag

\* Mutant of CaCheck: the loop pauses without reading the flag.
CaCheck_unchecked ==
    /\ pc = "ca_check"
    /\ pc' = "ca_sleep"
    /\ UNCHANGED <<disk_vars, state_vars, page_vars, event, target,
                   sessions_arg, user_question, stop_flag, chain_kind, ca_i,
                   answer, exc, ghost_vars, log_vars, count_vars>>

\* Lines 259-261 and 272-274: one checkpoint of the loop.
CaCheck ==
    /\ pc = "ca_check"
    /\ IF checkpoint_stops(stop_flag)
       THEN /\ answer' = TerminatedResult
            /\ pc' = "ca_return"
       ELSE /\ pc' = "ca_sleep"
            /\ UNCHANGED answer
    /\ UNCHANGED <<disk_vars, state_vars, page_vars, event, target,
                   sessions_arg, user_question, stop_flag, chain_kind, ca_i,
                   exc, ghost_vars, log_vars, count_vars>>

\* Lines 262 and 275: time.sleep(1), then the next checkpoint, or the call
\* after the last.
CaSleep ==
    /\ pc = "ca_sleep"
    /\ ca_i' = ca_i + 1
    /\ pc' = IF ca_i + 1 < Checkpoints THEN "ca_check" ELSE "ca_call"
    /\ UNCHANGED <<disk_vars, state_vars, page_vars, event, target,
                   sessions_arg, user_question, stop_flag, chain_kind, answer,
                   exc, ghost_vars, log_vars, count_vars>>

\* Mutant of CaCall: no except clause, what the chain raises escapes.
CaCall_unhandled(beh) ==
    /\ pc = "ca_call"
    /\ chain_calls' = chain_calls + 1
    /\ chain_raised' = beh.raises
    /\ retrieved' = beh.chunks
    /\ IF beh.raises
       THEN /\ exc' = "ChainError"
            /\ pc' = "end"
            /\ UNCHANGED answer
       ELSE /\ answer' = chain_result(chain_kind, beh)
            /\ pc' = "ca_return"
            /\ UNCHANGED exc
    /\ UNCHANGED <<disk_vars, state_vars, page_vars, event, target,
                   sessions_arg, user_question, stop_flag, chain_kind, ca_i,
                   history_warning, stop_at_entry, embedding, log_vars,
                   count_vars>>

\* Lines 265 and 278: the chain is called, once.
CaCall(beh) ==
    /\ pc = "ca_call"
    /\ chain_calls' = chain_calls + 1
    /\ chain_raised' = beh.raises
    /\ retrieved' = beh.chunks
    /\ answer' = chain_result(chain_kind, beh)
    /\ pc' = "ca_return"
    /\ UNCHANGED <<disk_vars, state_vars, page_vars, event, target,
                   sessions_arg, user_question, stop_flag, chain_kind, ca_i,
                   exc, history_warning, stop_at_entry, embedding, log_vars,
                   count_vars>>

\* str.strip() exists on a str only.
has_strip(v) == v.ty = "str"
\* main, line 158: "not answer.strip() or answer == NOT_FOUND", the grounded
\* answer is empty, white space or the "not found" literal.
needs_fallback(v) == strip(v.val) = "" \/ v.val = NOT_FOUND
PREFIX_TURN == "<nothing found in the documents; the model's own answer follows:>"

\* main, lines 158-171 (after the retrieval chain) and line 180 (after the
\* fallback chain): line 158 evaluates answer.strip() on what
\* conversational_answer returned.
AfterAnswer ==
    /\ pc = "ca_return"
    /\ LET sel == selected_session
       IN  IF chain_kind = "retrieval"
           THEN IF ~has_strip(answer)
                THEN /\ exc' = NO_STRIP
                     /\ pc' = "end"
                     /\ UNCHANGED <<conversation_history, chain_kind, ca_i,
                                    chain_calls, stop_at_entry>>
                ELSE IF needs_fallback(answer)
                THEN /\ conversation_history' =
                            append_turn(conversation_history, sel, "assistant",
                                        PyStr(PREFIX_TURN))
                     /\ chain_kind' = "fallback"
                     /\ ca_i' = 0
                     /\ chain_calls' = 0
                     /\ stop_at_entry' = stop_flag
                     /\ pc' = "ca_check"
                     /\ UNCHANGED exc
                ELSE /\ conversation_history' =
                            append_turn(conversation_history, sel, "assistant", answer)
                     /\ pc' = "save2_open"
                     /\ UNCHANGED <<exc, chain_kind, ca_i, chain_calls, stop_at_entry>>
           ELSE /\ conversation_history' =
                       append_turn(conversation_history, sel, "assistant", answer)
                /\ pc' = "save2_open"
                /\ UNCHANGED <<exc, chain_kind, ca_i, chain_calls, stop_at_entry>>
    /\ UNCHANGED <<disk_vars, new_session, selected_session, vector_store,
                   qa_chain, page_vars, event, target, sessions_arg,
                   user_question, stop_flag, answer, chain_raised, retrieved,
                   history_warning, embedding, log_vars, count_vars>>

\* ------------------------------------------------------------ the process

\* st.session_state and the widgets of a new process, which starts with the
\* files as the step leaves them; the names bound in module ui are those of
\* the same source.
FreshProcess ==
    /\ new_session' = NoText
    /\ selected_session' = None
    /\ vector_store' = [i \in Ids |-> VsAbsent]
    /\ qa_chain' = [i \in Ids |-> "absent"]
    /\ conversation_history' = [i \in Ids |-> ChAbsent]
    /\ uploader' = <<>>
    /\ rendered' = Page("nothing", <<>>, PH_NONE)
    /\ ResetRun
    /\ UNCHANGED log_vars
    /\ pc' = "rerun"
    /\ event' = "restart"
    /\ events < MaxEvents
    /\ events' = events + 1
    /\ UNCHANGED ui_names

\* The process is stopped and started again; the files stay as they are: a
\* file that was opened for writing and not written yet stays empty.
Restart ==
    /\ UNCHANGED disk_vars
    /\ FreshProcess

\* The process stops (a kill, a power loss) while json.dump writes
\* sessions.json or a history: the file keeps the part that reached it,
\* which is no JSON text and may end inside a character.
KillDuringWrite(cut) ==
    /\ pc \in {"ss_write", "save1_write", "save2_write"}
    /\ LET disk == DiskOf(sessions_file, history_files)
           left == IF pc = "ss_write" THEN [disk EXCEPT !.sessions = cut]
                   ELSE put_history_file(disk, selected_session, cut)
       IN  /\ sessions_file' = left.sessions
           /\ history_files' = left.histories
    /\ FreshProcess
    /\ UNCHANGED <<vector_files, vector_global>>

\* json.dump (or the close of the file) raises OSError while it writes
\* sessions.json or a history, as on a full disk (data_utils.py, lines 38
\* and 247): the file keeps what reached it after the truncation, the
\* exception ends the run, and the process goes on with st.session_state as
\* it is: the selection is not changed (ui.py, 52 and 69-75, are not
\* reached), the history in memory keeps the turn that was not saved.  The
\* page keeps the widgets made before the write.
WriteFails(left) ==
    /\ pc \in {"ss_write", "save1_write", "save2_write"}
    /\ LET disk == DiskOf(sessions_file, history_files)
           failed == IF pc = "ss_write" THEN [disk EXCEPT !.sessions = left]
                     ELSE put_history_file(disk, selected_session, left)
       IN  /\ sessions_file' = failed.sessions
           /\ history_files' = failed.histories
    /\ uploader' \in IF pc = "ss_write" THEN after_rerun(uploader) ELSE {uploader}
    /\ exc' = OS_ERROR
    /\ pc' = "end"
    /\ events < MaxEvents
    /\ events' = events + 1
    /\ UNCHANGED <<vector_files, vector_global, state_vars, ui_names, rendered,
                   event, target, sessions_arg, user_question, stop_flag,
                   chain_kind, ca_i, answer, ghost_vars, log_vars>>

\* The steps of the application as it is in the source: no run gets past
\* main.py, line 76, so the uploader and the chat input are never on the
\* page and the steps behind them are never taken.
Next ==
    \/ AwaitEvent
    \/ \E n \in TypedNames : TypeNewSession(n)
    \/ CreateSession
    \/ SaveSessionsOpen
    \/ SaveSessionsWrite
    \/ \E id \in Ids : SelectSession(id)
    \/ ClickDelete
    \/ DeleteHistoryFile
    \/ DeleteIndexEntry
    \/ \E embed \in Embeddings : ScriptRun(embed)
    \/ Restart
    \/ \E cut \in CutFiles : KillDuringWrite(cut)
    \/ \E left \in FailedFiles : WriteFails(left)

Spec == Init /\ [][Next]_vars

\* ------------------------------------ the application with an upload widget

\* main.py, line 76, with the name it calls bound to the upload widget of
\* ui.py (render_document_upload_sidebar, lines 13-23).
InitBound == Start(UiNames \cup {PDF_UPLOAD}, <<>>)

NextBound ==
    \/ Next
    \/ \E files \in Batches : UploadFiles(files)
    \/ RemoveFiles
    \/ \E q \in Questions : AskQuestion(q)
    \/ SaveOpen
    \/ SaveWrite
    \/ \E stop \in StopClicked : LoadingMessage(stop)
    \/ CaCheck
    \/ CaSleep
    \/ \E beh \in ChainBehaviours(chain_kind,
                                  vector_store[selected_session].ntotal) : CaCall(beh)
    \/ AfterAnswer

SpecBound == InitBound /\ [][NextBound]_vars

\* That application started where an earlier process has created two
\* sessions and saved no history yet; the operator selects sessions and
\* asks questions.
ListedPairs == {<<"s1", "./s1">>, <<"s1", "s2">>, <<"s2", "a/b">>}
InitShared == \E listed \in ListedPairs : Start(UiNames \cup {PDF_UPLOAD}, listed)

NextShared ==
    \/ AwaitEvent
    \/ \E id \in Ids : SelectSession(id)
    \/ \E embed \in Embeddings : ScriptRun(embed)
    \/ \E q \in Questions : AskQuestion(q)
    \/ SaveOpen
    \/ SaveWrite
    \/ \E stop \in StopClicked : LoadingMessage(stop)
    \/ CaCheck
    \/ CaSleep
    \/ \E beh \in ChainBehaviours(chain_kind,
                                  vector_store[selected_session].ntotal) : CaCall(beh)
    \/ AfterAnswer

SpecShared == InitShared /\ [][NextShared]_vars

\* ------------------------------- calls of the functions of data_utils.py

\* The histories given to a function: up to MaxTurns pairs (role, content)
\* of text, the text being one of those given.
TextTurns(texts) ==
    {PyTuple(<<PyStr(role), PyStr(content)>>) :
         role \in {"user", "assistant"}, content \in texts}
Histories(texts) == UNION {[1..n -> TextTurns(texts)] : n \in 0..MaxTurns}
\* The histories of the questions and the answers of the model, and those
\* that may also hold a text beyond ASCII or one with a lone surrogate.
TextHistories == Histories(Questions \cup ModelAnswers)
StoredTexts == {"q", NON_ASCII, LONE_SURROGATE}
StoredTextHistories == Histories(StoredTexts)

\* A process about to call a function of data_utils.py for session id (the
\* call stands at position at): the session is listed and selected, its
\* index, history and history file are the ones given, the chain and the
\* stop flag are those conversational_answer gets.
Call(id, index, history, disk, at, kind, stop) ==
    /\ sessions_file = disk.sessions
    /\ history_files = disk.histories
    /\ vector_files =
           [p \in IndexPaths |-> IF p = index_path(id) THEN index.ntotal ELSE 0]
    /\ vector_global = 0
    /\ new_session = NoText
    /\ selected_session = id
    /\ vector_store = [i \in Ids |-> IF i = id THEN index ELSE VsAbsent]
    /\ qa_chain = [i \in Ids |-> IF i = id /\ kind = "retrieval"
                                 THEN "chain" ELSE "absent"]
    /\ conversation_history =
           [i \in Ids |-> IF i = id THEN ChList(history) ELSE ChAbsent]
    /\ ui_names = UiNames
    /\ uploader = <<>>
    /\ rendered = Page("nothing", <<>>, PH_NONE)
    /\ pc = at
    /\ event = IF at = "del_file" THEN "delete" ELSE "none"
    /\ target = IF at = "del_file" THEN id ELSE None
    /\ sessions_arg = <<>>
    /\ user_question = IF kind = "none" THEN NoText ELSE "q"
    /\ stop_flag = stop
    /\ chain_kind = kind
    /\ ca_i = 0
    /\ answer = PyStr(NoText)
    /\ exc = NoExc
    /\ chain_calls = 0
    /\ chain_raised = FALSE
    /\ retrieved = 0
    /\ history_warning = FALSE
    /\ stop_at_entry = stop
    /\ embedding = "none"
    /\ last_written = [p \in HistoryPaths |-> <<>>]
    /\ batch_skipped = FALSE
    /\ events = 0

\* The files of a directory in which session id alone is listed and the
\* file given is at its history path (HISTORY_DIR exists when a file is in
\* it).
OneSession(id, file) ==
    [sessions |-> JsonFile(<<id>>),
     histories |->
         [p \in HistoryPaths \cup {HISTORY_DIR} |->
              IF p = history_path(id) THEN file
              ELSE IF p = HISTORY_DIR /\ file # NoFile THEN Directory
              ELSE NoFile]]

\* conversational_answer(chain, question, stop_flag, history) is called
\* with a retrieval chain over an index of n vectors or with the fallback
\* chain, with the stop flag set or not, and with a history.
InitAnswer ==
    \E id \in Ids, n \in 1..MaxVectors, h \in TextHistories, stop \in BOOLEAN :
        \/ Call(id, VsObj(n), h, OneSession(id, NoFile), "ca_check",
                "retrieval", stop)
        \/ Call(id, VsNone, h, OneSession(id, NoFile), "ca_check",
                "fallback", stop)

NextAnswer ==
    \/ CaCheck
    \/ CaSleep
    \/ \E beh \in ChainBehaviours(chain_kind,
                                  vector_store[selected_session].ntotal) : CaCall(beh)

SpecAnswer == InitAnswer /\ [][NextAnswer]_vars

\* save_conversation_history or initialize_conversation_history is called
\* for a session with a history in memory and with no history file, an
\* empty one or one that a write has cut short (a file can be at the path
\* of an id that names a file of HISTORY_DIR).
InitRoundTrip ==
    \E id \in Ids, h \in StoredTextHistories,
       file \in {NoFile, EmptyFile, PartialFile, CutCharFile} :
        /\ file # NoFile => history_path(id) \in HistoryPaths
        /\ Call(id, VsAbsent, h, OneSession(id, file), "rt_start", "none", FALSE)

\* save_conversation_history(session_id, history): it returns, or what it
\* raises escapes.
RoundTripSave ==
    /\ pc = "rt_start"
    /\ LET saved ==
               save_conversation_history(
                   DiskOf(sessions_file, history_files), selected_session,
                   conversation_history[selected_session].hist)
       IN  /\ sessions_file' = saved.disk.sessions
           /\ history_files' = saved.disk.histories
           /\ exc' = saved.exc
           /\ last_written' =
                  IF saved.exc = NoExc
                  THEN note_written(last_written, saved.disk, selected_session)
                  ELSE last_written
           /\ pc' = IF saved.exc = NoExc THEN "rt_saved" ELSE "rt_raised"
    /\ UNCHANGED <<vector_files, vector_global, state_vars, page_vars, event,
                   target, sessions_arg, user_question, stop_flag, chain_kind,
                   ca_i, answer, ghost_vars, batch_skipped, count_vars>>

\* initialize_conversation_history(session_id), on the file that was there
\* at the start or on the file that was saved: what it returns replaces the
\* history in memory.
RoundTripLoad ==
    /\ pc \in {"rt_start", "rt_saved"}
    /\ LET loaded == initialize_conversation_history(
                         DiskOf(sessions_file, history_files), selected_session)
       IN  /\ conversation_history' =
                  IF loaded.exc = NoExc
                  THEN [conversation_history EXCEPT
                            ![selected_session] = ChList(loaded.value)]
                  ELSE conversation_history
           /\ history_warning' = loaded.warning
           /\ exc' = loaded.exc
    /\ pc' = IF pc = "rt_start" THEN "rt_read" ELSE "rt_loaded"
    /\ UNCHANGED <<disk_vars, new_session, selected_session, vector_store,
                   qa_chain, page_vars, event, target, sessions_arg,
                   user_question, stop_flag, chain_kind, ca_i, answer,
                   chain_calls, chain_raised, retrieved, stop_at_entry,
                   embedding, log_vars, count_vars>>

NextRoundTrip ==
    \/ RoundTripSave
    \/ RoundTripLoad

SpecRoundTrip == InitRoundTrip /\ [][NextRoundTrip]_vars

\* The ids delete_session is called with, the lists sessions.json may hold
\* (up to two of these ids, none twice), and the history files a listed
\* session may have.
DeletedIds == Ids \cup {TRAVERSAL}
SessionLists ==
    {<<>>} \cup {<<a>> : a \in DeletedIds}
           \cup ({<<a, b>> : a, b \in DeletedIds} \ {<<a, a>> : a \in DeletedIds})
StoredHistories ==
    {NoFile, EmptyFile, PartialFile, CutCharFile, JsonFile(<<>>),
     JsonFile(HistoryToJson(<<PyTuple(<<PyStr("user"), PyStr("q")>>)>>))}
\* The directories delete_session is called in: sessions.json is absent or
\* holds a list; a history file is there for a listed session only;
\* HISTORY_DIR exists once a history was saved, and stays when its files
\* are removed.
Disks ==
    {d \in [sessions : {NoFile} \cup {JsonFile(l) : l \in SessionLists},
            histories : [HistoryPaths -> StoredHistories]
                            \X {NoFile, Directory}] :
         \A p \in HistoryPaths :
             d.histories[1][p] # NoFile =>
                 /\ d.histories[2] = Directory
                 /\ \E i \in 1..Len(d.sessions.data) :
                        history_path(d.sessions.data[i]) = p}
\* HISTORY_DIR and its files as one function.
WithDirectory(files, dir) ==
    [p \in HistoryPaths \cup {HISTORY_DIR} |->
         IF p = HISTORY_DIR THEN dir ELSE files[p]]

\* delete_session(id) is called for a session that is listed (as the
\* sidebar calls it, ui.py, 59-68) or for an id with neither entry nor
\* history file.
InitDelete ==
    \E id \in DeletedIds, d \in Disks :
        LET disk == [sessions |-> d.sessions,
                     histories |-> WithDirectory(d.histories[1], d.histories[2])]
        IN  /\ \/ InSeq(id, d.sessions.data)
               \/ history_file(disk, id).kind = "absent"
            /\ Call(id, VsAbsent, <<>>, disk, "del_file", "none", FALSE)

\* delete_session(id) is called again when the first call has returned.
DeleteAgain ==
    /\ pc = "rerun"
    /\ event = "delete"
    /\ events < 1
    /\ events' = events + 1
    /\ pc' = "del_file"
    /\ UNCHANGED <<disk_vars, state_vars, page_vars, event, target,
                   sessions_arg, user_question, stop_flag, chain_kind, ca_i,
                   answer, exc, ghost_vars, log_vars>>

NextDelete ==
    \/ DeleteHistoryFile
    \/ DeleteIndexEntry
    \/ SaveSessionsOpen
    \/ SaveSessionsWrite
    \/ DeleteAgain

SpecDelete == InitDelete /\ [][NextDelete]_vars

\* --------------------------------------------------------- the properties

\* The positions of a run inside conversational_answer.
InAnswer == pc \in {"ca_check", "ca_sleep", "ca_call", "ca_return"}
\* The sessions listed in sessions.json.
Sessions == get_sessions(sessions_file).value
\* The JSON files as they are, and the file at the history path of a session.
Disk == DiskOf(sessions_file, history_files)
HistoryFile(id) == history_file(Disk, id)
\* The history of the selected session, and its last turn.
History == conversation_history[selected_session].hist
LastTurn == History[Len(History)]
\* The selected session's file holds exactly its in-memory history.
Synced == HistoryFile(selected_session) = JsonFile(HistoryToJson(History))
\* The run a submitted question started has ended, and not with a write
\* that raised.
QuestionEnded == pc = "end" /\ event = "ask" /\ exc # OS_ERROR

\* C1: when conversational_answer is entered with the stop flag set, for the
\* retrieval chain and for the fallback chain alike, no chain call is issued
\* and the call returns the "answer terminated" sentinel with no source
\* documents.
C1_StopBeforeCall ==
    (InAnswer /\ stop_at_entry) =>
        /\ chain_calls = 0
        /\ pc \in {"ca_check", "ca_return"}
        /\ pc = "ca_return" =>
               /\ answer = PyDict(TERMINATED, <<>>)
               /\ answer.val.source_documents = <<>>
C1_Witness ==
    /\ pc = "ca_return"
    /\ stop_at_entry
    /\ chain_kind = "retrieval"
    /\ answer.val.answer = TERMINATED

\* C2 (as claimed): a question that is not cancelled and whose retrieval
\* yields no chunk, or whose session has no index, ends with the fallback answerer invoked and with an
\* assistant turn that marks the answer as not grounded in the documents.
NoChunksRetrieved ==
    \/ vector_store[selected_session].st # "obj"
    \/ chain_calls = 1 /\ ~chain_raised /\ retrieved = 0
TaggedUngrounded ==
    \E i \in 1..Len(History) :
        /\ History[i] = PyTuple(<<PyStr("assistant"), PyStr(PREFIX_TURN)>>)
        /\ \E j \in 1..(i - 1) : History[j].val[1] = PyStr("user")
C2_FallbackOnNoGrounding ==
    (QuestionEnded /\ ~stop_flag /\ NoChunksRetrieved) =>
        /\ chain_kind = "fallback"
        /\ TaggedUngrounded

\* C3: every call of conversational_answer returns a dict with an answer
\* text and a source-document list; when the chain call raises, the result
\* is the apology with no source documents and nothing escapes; one call
\* issues at most one chain call, and the call always has a next step until
\* it returns.
AnswerTexts == ModelAnswers \cup {TERMINATED, APOLOGY}
C3_AlwaysAResult ==
    /\ chain_calls <= 1
    /\ chain_raised => (answer = PyDict(APOLOGY, <<>>) /\ exc # "ChainError")
    /\ InAnswer => (exc = NoExc /\ ca_i <= Checkpoints)
    /\ pc = "ca_return" =>
           /\ answer.ty = "dict"
           /\ answer.val.answer \in AnswerTexts
           /\ Len(answer.val.source_documents) >= 0
    /\ pc \in {"ca_check", "ca_sleep", "ca_call"} =>
           ENABLED (CaCheck \/ CaSleep
                    \/ \E beh \in ChainBehaviours(chain_kind, 0) : CaCall(beh))
C3_Witness ==
    /\ pc = "ca_return"
    /\ chain_raised
    /\ chain_calls = 1
    /\ answer.val.answer = APOLOGY

\* C4 (as claimed): every question is handled to the end without an
\* unhandled exception: when the run ends, an assistant turn follows the
\* user turn and the history has been saved.
C4_QuestionHandled ==
    QuestionEnded =>
        /\ exc = NoExc
        /\ Len(History) >= 2
        /\ LastTurn.val[1] = PyStr("assistant")
        /\ Synced

\* s without every occurrence of id.
RECURSIVE Others(_, _)
Others(s, id) ==
    IF s = <<>> THEN <<>>
    ELSE (IF Head(s) = id THEN <<>> ELSE <<Head(s)>>) \o Others(Tail(s), id)
\* C5 (as claimed): every call of delete_session(id), in a directory whose
\* sessions.json is absent or holds a list, raises nothing and leaves no
\* history file of id and no entry of id in sessions.json; its removal of
\* the file (lines 49-51) leaves the entries and the history files of the
\* other listed sessions as they were, its update of the index (lines
\* 54-57) leaves every history file as it was and writes the list without
\* id, the other entries in their order; a call for an id with neither file
\* nor entry (a second call included) changes no file.
C5_DeleteSession ==
    [][/\ (pc = "del_file" /\ pc' = "del_index") =>
              /\ HistoryFile(target)'.kind = "absent"
              /\ Others(Sessions', target) = Others(Sessions, target)
              /\ \A o \in Ids \ {target} :
                     InSeq(o, Sessions) => HistoryFile(o)' = HistoryFile(o)
              /\ (events = 1 \/ (/\ ~InSeq(target, Sessions)
                                 /\ HistoryFile(target).kind = "absent"))
                     => history_files' = history_files
       /\ pc = "del_index" =>
              /\ exc' = NoExc
              /\ history_files' = history_files
              /\ IF InSeq(target, Sessions)
                 THEN /\ pc' = "ss_open"
                      /\ sessions_arg' = Others(Sessions, target)
                 ELSE /\ pc' = "rerun"
                      /\ sessions_file' = sessions_file
       /\ (pc = "ss_write" /\ pc' = "rerun") =>
              /\ sessions_file' = JsonFile(sessions_arg)
              /\ history_files' = history_files
       /\ (event' = "delete" /\ pc' = "rerun") =>
              /\ HistoryFile(target)'.kind = "absent"
              /\ ~InSeq(target, Sessions')
              /\ exc' = NoExc
      ]_vars
\* C5 for an id and the other sessions whose history paths are not the
\* path of id: what does hold of delete_session.
C5_DeleteOfOwnFile ==
    \A id \in Ids :
        LET once == delete_session(Disk, id)
            twice == delete_session(once, id)
        IN  get_sessions(sessions_file).exc = NoExc =>
                /\ once.exc = NoExc
                /\ history_file(once, id).kind = "absent"
                /\ get_sessions(once.sessions).value = Others(Sessions, id)
                /\ \A o \in Ids :
                       history_path(o) # history_path(id) =>
                           history_file(once, o) = HistoryFile(o)
                /\ twice = once

\* C6: sessions.json never lists an id twice: a create click reaches
\* save_sessions only for a name that is not listed, save_sessions is then
\* given the list with exactly that name appended at its end (the entries
\* before it and their order as they were) and writes that list; a delete
\* gives it the list without the deleted id; sessions.json changes in no
\* step but those of save_sessions, a stop of the process that cuts its
\* write short and a write that raises.
NoDuplicates(s) == \A i, j \in 1..Len(s) : s[i] = s[j] => i = j
C6_NoDuplicateSessions ==
    [][/\ NoDuplicates(get_sessions(sessions_file').value)
       /\ (pc = "idle" /\ pc' = "ss_open") =>
              /\ event' = "create"
              /\ ~InSeq(new_session, Sessions)
              /\ sessions_arg' = Append(Sessions, new_session)
       /\ (pc = "idle" /\ event' = "create" /\ InSeq(new_session, Sessions)) =>
              /\ pc' = "rerun"
              /\ sessions_file' = sessions_file
              /\ selected_session' = selected_session
       /\ (pc = "del_index" /\ pc' = "ss_open") =>
              sessions_arg' = Others(Sessions, target)
       /\ (pc = "ss_open" /\ pc' = "ss_write") => sessions_arg' = sessions_arg
       /\ (pc = "ss_write" /\ pc' = "rerun" /\ event' # "restart") =>
              sessions_file' = JsonFile(sessions_arg)
       /\ sessions_file' # sessions_file => pc \in {"ss_open", "ss_write"}
      ]_vars
\* A third session was created behind two that were listed, which kept
\* their places.
C6_Witness ==
    /\ event = "create"
    /\ pc = "rerun"
    /\ Len(Sessions) = 3
    /\ SubSeq(Sessions, 1, 2) = <<"s2", "s1">>
    /\ Sessions[3] = new_session
    /\ selected_session = new_session

\* C7 (as claimed): the history shown for, fed to the model for and next
\* saved for a session that was just created, with no file at its history
\* path, is empty.
C7_NewSessionStartsEmpty ==
    (/\ event = "create"
     /\ pc = "end"
     /\ exc = NoExc
     /\ sessions_arg # <<>>
     /\ selected_session = sessions_arg[Len(sessions_arg)]
     /\ HistoryFile(selected_session).kind = "absent") =>
        conversation_history[selected_session] = ChList(<<>>)

\* C8 (as claimed): initialize_conversation_history returns [] and raises
\* nothing when the session has no history file, when the file has size
\* zero and when its content is no JSON text, with a warning in the last
\* case only.
Unreadable == {"absent", "empty", "partial", "cutchar"}
NotJson == {"partial", "cutchar"}
C8_UnreadableHistoryIsEmpty ==
    (pc = "rt_read" /\ HistoryFile(selected_session).kind \in Unreadable) =>
        /\ conversation_history[selected_session] = ChList(<<>>)
        /\ history_warning = (HistoryFile(selected_session).kind \in NotJson)
        /\ exc = NoExc
\* C8 for the files that decode as UTF-8: what does hold of the load.
C8_DecodableHistoryIsEmpty ==
    (pc = "rt_read"
         /\ HistoryFile(selected_session).kind \in Unreadable \ {"cutchar"}) =>
        /\ conversation_history[selected_session] = ChList(<<>>)
        /\ history_warning = (HistoryFile(selected_session).kind = "partial")
        /\ exc = NoExc

\* C9 (as claimed): every append made while a question is handled is
\* followed by a save of the whole history: the file of the session holds
\* the in-memory history after the user turn is saved and during the answer
\* call, and a question whose retrieval chain was called ends with the
\* grounded answer turn, or with the prefix turn and the fallback answer
\* turn, appended and saved.
C9_EveryAppendSaved ==
    /\ (event = "ask" /\ pc \in {"loading", "ca_check", "ca_sleep", "ca_call",
                                 "ca_return"}) => Synced
    /\ (QuestionEnded /\ exc = NoExc) => Synced
    /\ (QuestionEnded /\ chain_kind = "retrieval") =>
           /\ LastTurn.val[1] = PyStr("assistant")
           /\ Synced
\* C9 for the user turn and the answer turn of the fallback chain: what
\* does hold of the appends that are reached.
C9_UserAndFallbackTurnsSaved ==
    /\ (event = "ask" /\ pc \in {"loading", "ca_check", "ca_sleep", "ca_call",
                                 "ca_return"}) => Synced
    /\ (QuestionEnded /\ exc \in {NoExc, NO_STRIP}) => Synced

\* C10 (as claimed): no step of the handling of a question in one session
\* changes the history file or the in-memory history of another listed
\* session.
C10_SessionIsolation ==
    [][event' = "ask" =>
           \A b \in Ids \ {selected_session'} :
               InSeq(b, Sessions) =>
                   /\ HistoryFile(b)' = HistoryFile(b)
                   /\ conversation_history'[b] = conversation_history[b]
      ]_vars
\* C10 for the sessions whose history paths differ: what does hold.
C10_DistinctFilesIsolated ==
    [][event' = "ask" =>
           \A b \in Ids :
               history_path(b) # history_path(selected_session') =>
                   /\ HistoryFile(b)' = HistoryFile(b)
                   /\ conversation_history'[b] = conversation_history[b]
      ]_vars

\* C11 (as claimed): every turn in a session's in-memory history and every
\* element of a history file is a pair (role, content) with role "user" or
\* "assistant" and content a text string; the content of an assistant turn
\* appended after a model call, a cancellation or a model error is the
\* answer text.
Roles == {PyStr("user"), PyStr("assistant")}
IsTextTurn(pair) ==
    /\ Len(pair.val) = 2
    /\ pair.val[1] \in Roles
    /\ pair.val[2].ty = "str"
C11_TurnsAreText ==
    /\ \A id \in Ids :
           \A i \in 1..Len(conversation_history[id].hist) :
               /\ conversation_history[id].hist[i].ty = "tuple"
               /\ IsTextTurn(conversation_history[id].hist[i])
    /\ \A p \in HistoryPaths :
           history_files[p].kind = "json" =>
               \A i \in 1..Len(history_files[p].data) :
                   /\ history_files[p].data[i].ty = "list"
                   /\ IsTextTurn(history_files[p].data[i])

\* C12 (as claimed): an index persisted for a session is in use again after
\* the process starts again: a question asked in a session whose persisted
\* index holds vectors is answered by the retrieval chain over it, and no
\* step (the first upload after a restart included) leaves the persisted
\* index of a session with fewer vectors than it held.
C12_PersistedIndexReloaded ==
    [][/\ (pc = "loading" /\ pc' = "ca_check"
               /\ vector_files[index_path(selected_session)] > 0) =>
              chain_kind' = "retrieval"
       /\ \A p \in IndexPaths : vector_files'[p] >= vector_files[p]
      ]_vars
\* C12, first half alone, as a condition on states.
C12_AnswersFromPersistedIndex ==
    (InAnswer /\ event = "ask"
         /\ vector_files[index_path(selected_session)] > 0) =>
        chain_kind = "retrieval"
\* C12, second half alone.
C12_PersistedIndexOnlyGrows ==
    [][\A p \in IndexPaths : vector_files'[p] >= vector_files[p]]_vars

\* C13 (as claimed): when the first batch of a session has chunks and its
\* embedding gives an index of zero vectors, nothing is persisted and no
\* index is returned, the upload handling ends without an unhandled
\* exception, and the index state of before the batch, in memory and on
\* disk, is unchanged.
C13_ZeroVectorsAbort ==
    [][(/\ pc = "rerun"
        /\ embedding' = "zero"
        /\ vector_store[selected_session].st # "obj") =>
           /\ vector_store' = lazy_vector_store(vector_store, selected_session)
           /\ vector_files' = vector_files
           /\ vector_global' = vector_global
           /\ exc' = NoExc
      ]_vars
\* C13 without its clause on exceptions: what does hold of the zero-vector
\* build.
C13_ZeroVectorsKeepState ==
    [][(/\ pc = "rerun"
        /\ embedding' = "zero"
        /\ vector_store[selected_session].st # "obj") =>
           /\ vector_store' = lazy_vector_store(vector_store, selected_session)
           /\ vector_files' = vector_files
           /\ vector_global' = vector_global
      ]_vars

\* C14 (as claimed): when conversational_answer returns after the retrieval
\* chain was called, retrieved chunks and did not raise (the Answered
\* outcome), the result carries the retrieved chunks as its source
\* documents; the source-document list is empty in the other outcomes only.
Answered ==
    /\ chain_kind = "retrieval"
    /\ chain_calls = 1
    /\ ~chain_raised
    /\ retrieved > 0
C14_AnsweredCarriesSources ==
    pc = "ca_return" =>
        /\ Answered => answer.val.source_documents = [i \in 1..retrieved |-> i]
        /\ answer.val.source_documents = <<>> => ~Answered

IsPrefix(a, b) == Len(a) <= Len(b) /\ SubSeq(b, 1, Len(a)) = a
\* A step in which json.dump writes the history file of the selected session.
WriteStep == pc \in {"save1_write", "save2_write"} /\ pc' \in {"loading", "end"}
\* In a question that was answered, the user turn comes right before the
\* assistant turn produced for it.
UserTurnFirst ==
    (event = "ask" /\ pc \in {"save2_open", "save2_write", "end"} /\ exc = NoExc) =>
        /\ Len(History) >= 2
        /\ History[Len(History) - 1]
               = PyTuple(<<PyStr("user"), PyStr(user_question)>>)
        /\ LastTurn.val[1] = PyStr("assistant")
\* C16 (as claimed): while sessions exist, every value of a session's
\* in-memory history and every content written to its history file has
\* every earlier one as a prefix, and within one question the user turn
\* precedes the assistant turns.
C16_AppendOnly ==
    [][/\ \A id \in Ids :
              (conversation_history[id].present
                   /\ conversation_history'[id].present) =>
                  IsPrefix(conversation_history[id].hist,
                           conversation_history'[id].hist)
       /\ (WriteStep /\ exc' = NoExc
               /\ history_path(selected_session) \in HistoryPaths) =>
              IsPrefix(last_written[history_path(selected_session)],
                       last_written'[history_path(selected_session)])
       /\ UserTurnFirst'
      ]_vars
\* C16 for the in-memory histories and the order of the turns of one
\* question: what does hold.
C16_MemoryAppendOnly ==
    [][/\ \A id \in Ids :
              (conversation_history[id].present
                   /\ conversation_history'[id].present) =>
                  IsPrefix(conversation_history[id].hist,
                           conversation_history'[id].hist)
       /\ UserTurnFirst'
      ]_vars

\* C17 (as claimed): whenever sessions.json is absent or holds a list (that
\* is, between the file writes and removals of the operations, not inside
\* the one write of save_sessions), every history file on disk is at the
\* history path of a session id that sessions.json lists.
C17_HistoryFilesAreListed ==
    sessions_file.kind \in {"absent", "json"} =>
        \A p \in HistoryPaths :
            history_files[p].kind # "absent" =>
                \E i \in 1..Len(Sessions) : history_path(Sessions[i]) = p
\* C17 for the deletes of the ids that spell a file of the history
\* directory: what does hold.
C17_ListedUnlessIndexRemoved ==
    (sessions_file.kind \in {"absent", "json"}
         /\ ~(event = "delete" /\ target = TRAVERSAL)) =>
        \A p \in HistoryPaths :
            history_files[p].kind # "absent" =>
                \E i \in 1..Len(Sessions) : history_path(Sessions[i]) = p

\* An uploaded file that gives chunks: a PDF with text that is not white
\* space only (every file is read as a PDF); and the chunks of a batch,
\* one for each such file.
GivesChunks(file) == file.fmt = "pdf" /\ file.body \notin WhiteSpace
ChunksOfBatch(files) ==
    Cardinality({i \in 1..Len(files) : GivesChunks(files[i])})
\* A step in which a script run reads the uploader and handles its files
\* (main, lines 76-114).
HandlesUpload ==
    pc = "rerun" /\ pc' # "rerun" /\ rendered'.stage \in UploaderShown
\* C18: the upload handling starts no embedding when no file in the
\* uploader gives a chunk (the index in memory and on disk stays as it was
\* and nothing is raised) and starts one when a file does, whatever the
\* other files of the batch give; an embedding that succeeds adds one
\* vector for every chunk of the batch: a file that gives no text or no
\* chunk does not keep the chunks of the other files out of the index.
C18_NoEmbeddingOfNothing ==
    [][HandlesUpload =>
           LET n == ChunksOfBatch(uploader)
           IN  /\ n = 0 =>
                      /\ embedding' = "none"
                      /\ vector_store' = lazy_vector_store(vector_store,
                                                           selected_session)
                      /\ vector_files' = vector_files
                      /\ vector_global' = vector_global
                      /\ exc' = NoExc
               /\ n > 0 => embedding' \in Embeddings
               /\ embedding' = "ok" =>
                      vector_store'[selected_session].ntotal
                          = vector_store[selected_session].ntotal + n
      ]_vars
\* A batch of a file without text and a file with text has been indexed,
\* after a run had met a batch that gave no chunk and had left the session
\* without an index.
C18_Witness ==
    /\ event = "upload"
    /\ pc = "end"
    /\ exc = NoExc
    /\ batch_skipped
    /\ Len(uploader) = 2
    /\ ~GivesChunks(uploader[1])
    /\ GivesChunks(uploader[2])
    /\ embedding = "ok"
    /\ vector_store[selected_session] = VsObj(1)
    /\ vector_files[index_path(selected_session)] = 1

\* C19 (as claimed): for every session id and every history of (role,
\* content) pairs with text content, save_conversation_history(id, h)
\* returns and leaves a file of JSON arrays, and
\* initialize_conversation_history(id) then returns a sequence equal to h:
\* the same length and order, each element a pair (a tuple) with the same
\* role and content.
C19_HistoryRoundTrip ==
    [][/\ (pc = "rt_start" /\ pc' \in {"rt_saved", "rt_raised"}) =>
              /\ exc' = NoExc
              /\ HistoryFile(selected_session)'.kind = "json"
              /\ Len(HistoryFile(selected_session)'.data) = Len(History)
              /\ \A i \in 1..Len(History) :
                     HistoryFile(selected_session)'.data[i]
                         = PyList(History[i].val)
       /\ (pc = "rt_saved" /\ pc' = "rt_loaded") =>
              /\ conversation_history'[selected_session] = ChList(History)
              /\ exc' = NoExc
              /\ ~history_warning'
      ]_vars
\* C19 for the ids that name a file of the history directory and the
\* histories whose texts UTF-8 can encode: what does hold.
C19_EncodableRoundTrip ==
    [][/\ (/\ pc = "rt_start"
           /\ pc' \in {"rt_saved", "rt_raised"}
           /\ history_path(selected_session) \in HistoryPaths
           /\ history_encodable(History)) =>
              /\ exc' = NoExc
              /\ HistoryFile(selected_session)' = JsonFile(HistoryToJson(History))
       /\ (pc = "rt_saved" /\ pc' = "rt_loaded") =>
              /\ conversation_history'[selected_session] = ChList(History)
              /\ exc' = NoExc
              /\ ~history_warning'
      ]_vars

====
